---- MODULE Spec2Model ----
(***************************************************************************)
(* State-machine model of scripts/scrape_police_stations.py (Sahayak):     *)
(* the two field extractors, the area classifier, the address resolver,    *)
(* and the sequential enrichment loop of main().                           *)
(*                                                                         *)
(* Text is modelled as a sequence of one-character strings so that the     *)
(* substring tests, lower(), strip(), replace() and zfill() of the source  *)
(* are computed and not assumed.                                           *)
(***************************************************************************)
EXTENDS Integers, Sequences, FiniteSets, TLC

VARIABLES
    \* ---- scrape_bangalore_stations: classification of one row's name
    station_name, area,
    \* ---- main: formatting of one record id
    position, record_id,
    \* ---- scrape_mysore_stations: the walk over the siblings of one heading
    scan_pc,        \* "header", "walk", "done"
    header,         \* the heading: [text, siblings]
    next_elem,      \* index in header.siblings of next_elem; Len + 1 when it is None
    address, phone, \* the locals of lines 82-83
    found,          \* the candidates the heading appended to stations
    addr_log,       \* history: the assignments to address, <<by, value>>
    phone_log,      \* history: the assignments to phone, <<by, value>>
    \* ---- main and the functions it calls
    pc,             \* where main is
    page,           \* scrape_mysore_stations: the loop variable of line 62
    stations,       \* scrape_mysore_stations: its local list
    mysore_stations, bangalore_stations, all_stations, geocoded_stations,
    i,              \* the index of enumerate (line 204)
    lat, lng,       \* line 207: <<>> is None, <<x>> the float x in units of 10^-7 degrees
    saved,          \* the content of OUTPUT_FILE, None when not written
    calls,          \* history: the calls made, in order, <<what, argument>>
    fetched,        \* history: per fetched page of source A, [page, kind, cands]
    b_fetched,      \* history: what the page of source B gave, [kind, cands]
    resolved,       \* history: what geocode_address returned per candidate, <<lat, lng>>
    origin          \* history: per record of geocoded_stations, the index i of its candidate

areaVars == <<station_name, area>>
idVars == <<position, record_id>>
scanVars == <<scan_pc, header, next_elem, address, phone, found, addr_log, phone_log>>
mainVars == <<pc, page, stations, mysore_stations, bangalore_stations, all_stations,
              geocoded_stations, i, lat, lng, saved, calls, fetched, b_fetched, resolved, origin>>
vars == <<station_name, area, position, record_id,
          scan_pc, header, next_elem, address, phone, found, addr_log, phone_log,
          pc, page, stations, mysore_stations, bangalore_stations, all_stations,
          geocoded_stations, i, lat, lng, saved, calls, fetched, b_fetched, resolved, origin>>

\* Python's None (also: a local that is not bound yet); no text equals it.
None == <<"None">>

(***************************************************************************)
(* Text helpers: str methods the source uses.                              *)
(***************************************************************************)
UpperChars == <<"A","B","C","D","E","F","G","H","I","J","K","L","M","N","O","P","Q","R","S","T","U","V","W","X","Y","Z">>
LowerChars == <<"a","b","c","d","e","f","g","h","i","j","k","l","m","n","o","p","q","r","s","t","u","v","w","x","y","z">>
DigitChars == <<"0","1","2","3","4","5","6","7","8","9">>
SpaceChars == {" ", "\n", "\t"}

\* str.lower() on one character
LowerChar(c) ==
    IF \E j \in 1..Len(UpperChars) : UpperChars[j] = c
    THEN LowerChars[CHOOSE j \in 1..Len(UpperChars) : UpperChars[j] = c]
    ELSE c

\* str.lower()
Lower(s) == [j \in 1..Len(s) |-> LowerChar(s[j])]

\* t in s (substring test)
Contains(s, t) ==
    \E k \in 1..(Len(s) - Len(t) + 1) : SubSeq(s, k, k + Len(t) - 1) = t

\* char.isdigit()
IsDigit(c) == \E j \in 1..Len(DigitChars) : DigitChars[j] = c

\* any(char.isdigit() for char in s)
HasDigit(s) == \E k \in 1..Len(s) : IsDigit(s[k])

RECURSIVE LStrip(_)
LStrip(s) == IF s # <<>> /\ Head(s) \in SpaceChars THEN LStrip(Tail(s)) ELSE s

RECURSIVE RStrip(_)
RStrip(s) ==
    IF s # <<>> /\ s[Len(s)] \in SpaceChars THEN RStrip(SubSeq(s, 1, Len(s) - 1)) ELSE s

\* str.strip()
Strip(s) == RStrip(LStrip(s))

\* s.startswith(t)
StartsWith(s, t) == Len(s) >= Len(t) /\ SubSeq(s, 1, Len(t)) = t

\* s.replace(old, ""), old non-empty: every non-overlapping occurrence, left to right
RECURSIVE RemoveAll(_, _)
RemoveAll(s, old) ==
    IF s = <<>> THEN <<>>
    ELSE IF StartsWith(s, old) THEN RemoveAll(SubSeq(s, Len(old) + 1, Len(s)), old)
    ELSE <<Head(s)>> \o RemoveAll(Tail(s), old)

\* str(n) for n >= 0
RECURSIVE Str(_)
Str(n) == IF n < 10 THEN <<DigitChars[n + 1]>> ELSE Str(n \div 10) \o <<DigitChars[(n % 10) + 1]>>

\* s.zfill(width) for an unsigned s
RECURSIVE ZFill(_, _)
ZFill(s, width) == IF Len(s) >= width THEN s ELSE ZFill(<<"0">> \o s, width)

(***************************************************************************)
(* Area classifier of scrape_bangalore_stations (lines 158-167).           *)
(***************************************************************************)
SouthTerms == {<<"e","l","e","c","t","r","o","n","i","c">>, <<"b","t","m">>, <<"k","o","r","a","m","a","n","g","a","l","a">>, <<"h","s","r">>}
EastTerms == {<<"w","h","i","t","e","f","i","e","l","d">>, <<"m","a","r","a","t","h","a","h","a","l","l","i">>, <<"b","r","i","g","a","d","e">>}
NorthTerms == {<<"h","e","b","b","a","l">>, <<"y","e","l","a","h","a","n","k","a">>, <<"a","i","r","p","o","r","t">>}
WestTerms == {<<"r","a","j","a","j","i","n","a","g","a","r">>, <<"m","a","l","l","e","s","h","w","a","r","a","m">>, <<"j","a","y","a","n","a","g","a","r">>}

\* any(term in station_name.lower() for term in terms)
AnyTermIn(name, terms) == \E term \in terms : Contains(Lower(name), term)

\* AreaOf with a fault, for C9: the east test is made before the south test.
AreaOfEastFirst(name) ==
    IF AnyTermIn(name, EastTerms) THEN <<"B","a","n","g","a","l","o","r","e"," ","E","a","s","t">>
    ELSE IF AnyTermIn(name, SouthTerms) THEN <<"B","a","n","g","a","l","o","r","e"," ","S","o","u","t","h">>
    ELSE IF AnyTermIn(name, NorthTerms) THEN <<"B","a","n","g","a","l","o","r","e"," ","N","o","r","t","h">>
    ELSE IF AnyTermIn(name, WestTerms) THEN <<"B","a","n","g","a","l","o","r","e"," ","W","e","s","t">>
    ELSE <<"B","a","n","g","a","l","o","r","e"," ","C","e","n","t","r","a","l">>

AreaOf(name) ==
    IF AnyTermIn(name, SouthTerms) THEN <<"B","a","n","g","a","l","o","r","e"," ","S","o","u","t","h">>
    ELSE IF AnyTermIn(name, EastTerms) THEN <<"B","a","n","g","a","l","o","r","e"," ","E","a","s","t">>
    ELSE IF AnyTermIn(name, NorthTerms) THEN <<"B","a","n","g","a","l","o","r","e"," ","N","o","r","t","h">>
    ELSE IF AnyTermIn(name, WestTerms) THEN <<"B","a","n","g","a","l","o","r","e"," ","W","e","s","t">>
    ELSE <<"B","a","n","g","a","l","o","r","e"," ","C","e","n","t","r","a","l">>

(***************************************************************************)
(* Record id of main (line 211).                                           *)
(***************************************************************************)
IdPrefix == <<"p","s","_">>

\* RecordId with a fault, for C2: the index is used without the + 1.
RecordIdZeroBased(idx) == IdPrefix \o ZFill(Str(idx), 3)

\* RecordId with a fault, for C10: the index is not zero-padded.
RecordIdNoPad(idx) == IdPrefix \o Str(idx + 1)

\* f"ps_{str(i+1).zfill(3)}"
RecordId(idx) == IdPrefix \o ZFill(Str(idx + 1), 3)

(***************************************************************************)
(* extract_address_from_maps_url (lines 27-36): urlparse(url).query, then  *)
(* parse_qs(...)['query'][0]. The query is the text between the first "?"  *)
(* and the fragment; parse_qs splits it at "&", splits each field at its   *)
(* first "=", drops fields with a blank value and decodes "+" as a space   *)
(* (the hrefs of the model hold no % escapes).                             *)
(***************************************************************************)
\* The index of the first c in s, or 0.
IndexOf(s, c) ==
    IF \E k \in 1..Len(s) : s[k] = c THEN CHOOSE k \in 1..Len(s) : s[k] = c /\ \A j \in 1..(k - 1) : s[j] # c
    ELSE 0

Before(s, c) == IF IndexOf(s, c) = 0 THEN s ELSE SubSeq(s, 1, IndexOf(s, c) - 1)
After(s, c) == IF IndexOf(s, c) = 0 THEN <<>> ELSE SubSeq(s, IndexOf(s, c) + 1, Len(s))

\* urlparse(url).query
UrlQuery(url) == After(Before(url, "#"), "?")

\* s.split(c)
RECURSIVE Split(_, _)
Split(s, c) == IF IndexOf(s, c) = 0 THEN <<s>> ELSE <<Before(s, c)>> \o Split(After(s, c), c)

\* unquote of parse_qs: "+" is a space
UnquotePlus(s) == [k \in 1..Len(s) |-> IF s[k] = "+" THEN " " ELSE s[k]]

\* parse_qs(qs)[key][0], or None when parse_qs(qs) has no such key
RECURSIVE FirstValue(_, _)
FirstValue(fields, key) ==
    IF fields = <<>> THEN None
    ELSE LET f == Head(fields)
         IN  IF IndexOf(f, "=") # 0 /\ After(f, "=") # <<>> /\ UnquotePlus(Before(f, "=")) = key
             THEN UnquotePlus(After(f, "="))
             ELSE FirstValue(Tail(fields), key)

extract_address_from_maps_url(url) == FirstValue(Split(UrlQuery(url), "&"), <<"q","u","e","r","y">>)

(***************************************************************************)
(* scrape_mysore_stations: the body of the sibling loop (lines 88-102).    *)
(* An element is [name, href, text]; st is [address, phone].               *)
(***************************************************************************)
WalkedNames == {"p", "div", "a"}

\* line 90
IsMapsHref(href) == Contains(href, <<"m","a","p","s",".","g","o","o","g","l","e">>) \/ Contains(href, <<"g","o","o",".","g","l">>)
\* line 95, reached when line 90 is false
IsTelHref(href) == ~IsMapsHref(href) /\ Contains(href, <<"t","e","l",":">>)
\* line 96
TelNumber(href) == Strip(RemoveAll(href, <<"t","e","l",":">>))

\* LinkPart with a fault, for C6: a map link sets the address only when none is set.
LinkPartMapsOnlyIfUnset(st, el) ==
    IF el.name # "a" THEN st
    ELSE IF IsMapsHref(el.href)
         THEN IF extract_address_from_maps_url(el.href) \notin {None, <<>>} /\ st.address = <<>>
              THEN [st EXCEPT !.address = extract_address_from_maps_url(el.href)]
              ELSE st
         ELSE IF Contains(el.href, <<"t","e","l",":">>)
              THEN [st EXCEPT !.phone = TelNumber(el.href)]
              ELSE st

\* LinkPart with a fault, for C7: a telephone link sets the phone only when none is set.
LinkPartTelOnlyIfUnset(st, el) ==
    IF el.name # "a" THEN st
    ELSE IF IsMapsHref(el.href)
         THEN IF extract_address_from_maps_url(el.href) \notin {None, <<>>}
              THEN [st EXCEPT !.address = extract_address_from_maps_url(el.href)]
              ELSE st
         ELSE IF Contains(el.href, <<"t","e","l",":">>) /\ st.phone = <<>>
              THEN [st EXCEPT !.phone = TelNumber(el.href)]
              ELSE st

\* lines 88-96
LinkPart(st, el) ==
    IF el.name # "a" THEN st
    ELSE IF IsMapsHref(el.href)
         THEN IF extract_address_from_maps_url(el.href) \notin {None, <<>>}
              THEN [st EXCEPT !.address = extract_address_from_maps_url(el.href)]
              ELSE st
         ELSE IF Contains(el.href, <<"t","e","l",":">>)
              THEN [st EXCEPT !.phone = TelNumber(el.href)]
              ELSE st

\* line 99
TextSetsAddress(st, el) ==
    /\ Strip(el.text) # <<>>
    /\ st.address = <<>>
    /\ (Contains(Lower(Strip(el.text)), <<"r","o","a","d">>) \/ Contains(Lower(Strip(el.text)), <<"s","t","r","e","e","t">>))
\* line 101
TextSetsPhone(st, el) ==
    /\ ~TextSetsAddress(st, el)
    /\ Strip(el.text) # <<>>
    /\ st.phone = <<>>
    /\ HasDigit(Strip(el.text))

\* lines 98-102
TextPart(st, el) ==
    IF TextSetsAddress(st, el) THEN [st EXCEPT !.address = Strip(el.text)]
    ELSE IF TextSetsPhone(st, el) THEN [st EXCEPT !.phone = Strip(el.text)]
    ELSE st

\* lines 88-102
SiblingStep(st, el) == TextPart(LinkPart(st, el), el)

\* line 87: the loop goes on
Walking(sibs, k) == k <= Len(sibs) /\ sibs[k].name \in WalkedNames

\* lines 86-104: the locals after the walk that starts at sibling k
RECURSIVE WalkFrom(_, _, _)
WalkFrom(st, sibs, k) ==
    IF Walking(sibs, k) THEN WalkFrom(SiblingStep(st, sibs[k]), sibs, k + 1) ELSE st

\* line 78: the heading is skipped
HeaderSkipped(name) == name = <<>> \/ Len(name) < 5

\* lines 106-113: what the heading appends to stations
Candidate(name, st) ==
    IF name # <<>> /\ (st.address # <<>> \/ st.phone # <<>>)
    THEN <<[name |-> name,
            address |-> IF st.address # <<>> THEN st.address ELSE name \o <<","," ","M","y","s","u","r","u",","," ","K","a","r","n","a","t","a","k","a">>,
            phone |-> IF st.phone # <<>> THEN st.phone ELSE <<"N","/","A">>,
            area |-> <<"M","y","s","u","r","u">>]>>
    ELSE <<>>

\* lines 77-113 for one heading
HeaderCandidates(h) ==
    IF HeaderSkipped(Strip(h.text)) THEN <<>>
    ELSE Candidate(Strip(h.text), WalkFrom([address |-> <<>>, phone |-> <<>>], h.siblings, 1))

\* lines 76-113 over the headings of one page, in document order
RECURSIVE PageCandidates(_)
PageCandidates(headers) ==
    IF headers = <<>> THEN <<>>
    ELSE HeaderCandidates(Head(headers)) \o PageCandidates(Tail(headers))

\* range(1, 4) of line 62 ends with this page
LastPage == 3

\* AfterMysoreError with a fault, for C5: the exception leaves scrape_mysore_stations.
AfterMysoreErrorPropagates == "crashed"

\* lines 117-120: where control is after an exception in the try block of
\* scrape_mysore_stations (the except clause logs, the function returns stations)
AfterMysoreError == "mysore_return"

(***************************************************************************)
(* scrape_bangalore_stations: one row (lines 142-175); a row is the        *)
(* sequence of the texts of its cells.                                     *)
(***************************************************************************)
RowCandidates(cells) ==
    IF Len(cells) >= 2
    THEN LET name == Strip(cells[1])
             addr == Strip(cells[2])
             ph == IF Len(cells) > 2 /\ HasDigit(Strip(cells[3])) THEN Strip(cells[3]) ELSE <<"N","/","A">>
         IN  IF name # <<>> /\ Len(name) > 3
             THEN <<[name |-> name, address |-> addr, phone |-> ph, area |-> AreaOf(name)]>>
             ELSE <<>>
    ELSE <<>>

RECURSIVE RowsCandidates(_)
RowsCandidates(rows) ==
    IF rows = <<>> THEN <<>> ELSE RowCandidates(Head(rows)) \o RowsCandidates(Tail(rows))

\* lines 139-141: the rows the loops visit, rows[1:] of every table in order
RECURSIVE DataRows(_)
DataRows(tables) ==
    IF tables = <<>> THEN <<>>
    ELSE (IF Head(tables) = <<>> THEN <<>> ELSE Tail(Head(tables))) \o DataRows(Tail(tables))

(***************************************************************************)
(* geocode_address (lines 38-53) and the loop body of main (204-225).      *)
(***************************************************************************)
\* lines 45-53: the pair returned for what geolocator.geocode did:
\* [kind |-> "found", lat, lng], [kind |-> "none"] or [kind |-> "error"]
GeocodeResult(outcome) ==
    IF outcome.kind = "found" THEN <<<<outcome.lat>>, <<outcome.lng>>>> ELSE <<<<>>, <<>>>>

\* Python truth of a float or None
Truthy(x) == x # <<>> /\ x[1] # 0

\* round(x, 6), x in units of 10^-7: the result in units of 10^-6 (the inputs of
\* the model are not halfway between two results)
Round6(x) == IF x >= 0 THEN (x + 5) \div 10 ELSE -((-x + 5) \div 10)

\* lines 210-218
GeocodedStation(idx, station, la, ln) ==
    [id |-> RecordId(idx), name |-> station.name, address |-> station.address,
     phone |-> station.phone, lat |-> Round6(la[1]), lng |-> Round6(ln[1]), area |-> station.area]

\* RateLimit with a fault, for C8: the delay is made only after a success.
RateLimitOnSuccessOnly(idx, ok) == IF ok THEN <<<<"delay", idx + 1>>>> ELSE <<>>

\* line 225: time.sleep(GEOCODE_DELAY) at the end of every turn of the loop
RateLimit(idx, ok) == <<<<"delay", idx + 1>>>>

(***************************************************************************)
(* Inputs.                                                                 *)
(***************************************************************************)
\* Station names are built from these words, joined by single spaces.
Words == {<<"E","l","e","c","t","r","o","n","i","c">>, <<"H","S","R">>, <<"W","h","i","t","e","f","i","e","l","d">>, <<"B","r","i","g","a","d","e">>, <<"H","e","b","b","a","l">>, <<"A","i","r","p","o","r","t">>,
          <<"J","a","y","a","n","a","g","a","r">>, <<"R","a","j","a","j","i","n","a","g","a","r">>, <<"C","e","n","t","r","a","l">>, <<"P","o","l","i","c","e">>, <<"b","t","m">>, <<"K","o","r","a","m","a","n","g","a","l","a">>}

MaxWords == 2

RECURSIVE NamesOf(_)
NamesOf(n) ==
    IF n = 0 THEN {<<>>}
    ELSE LET shorter == NamesOf(n - 1)
         IN  shorter \cup {IF s = <<>> THEN w ELSE s \o <<" ">> \o w : s \in shorter, w \in Words}

ExampleNames == {<<"E","l","e","c","t","r","o","n","i","c"," ","C","i","t","y"," ","P","o","l","i","c","e"," ","S","t","a","t","i","o","n">>, <<"W","h","i","t","e","f","i","e","l","d"," ","P","o","l","i","c","e"," ","S","t","a","t","i","o","n">>,
                 <<"C","e","n","t","r","a","l"," ","P","o","l","i","c","e"," ","S","t","a","t","i","o","n">>}

NamePool == NamesOf(MaxWords) \cup ExampleNames

\* The elements a heading's siblings are drawn from.
El(name, href, text) == [name |-> name, href |-> href, text |-> text]

SiblingPool ==
    { El("p", <<>>, <<"S","a","y","y","a","j","i"," ","R","o","a","d">>),
      El("p", <<>>, <<" ","5"," ","T","e","m","p","l","e"," ","S","t","r","e","e","t"," ">>),
      El("div", <<>>, <<"0","8","2","1","-","1","0","0">>),
      El("p", <<>>, <<"O","p","e","n"," ","d","a","i","l","y">>),
      El("a", <<"h","t","t","p","s",":","/","/","m","a","p","s",".","g","o","o","g","l","e",".","c","o","m","/","?","q","u","e","r","y","=","M","G","+","R","o","a","d">>, <<"M","a","p">>),
      El("a", <<"h","t","t","p","s",":","/","/","g","o","o",".","g","l","/","m","?","z","=","1","&","q","u","e","r","y","=","F","o","r","t">>, <<"F","o","r","t"," ","S","t","r","e","e","t">>),
      El("a", <<"h","t","t","p","s",":","/","/","m","a","p","s",".","g","o","o","g","l","e",".","c","o","m","/","?","q","=","x">>, <<"D","i","a","l"," ","1","0","0">>),
      El("a", <<"t","e","l",":","0","8","2","1","-","2","4">>, <<"C","a","l","l">>),
      El("a", <<"t","e","l",":"," ","1","0","0">>, <<"1","0","0">>),
      El("a", <<"t","e","l",":">>, <<"0","8","2","1","-","5">>),
      El("a", <<"/","c","o","n","t","a","c","t">>, <<>>),
      El("ul", <<>>, <<"F","o","r","t"," ","R","o","a","d"," ","1">>) }

HeaderTexts == {<<" ","K","R"," ","P","o","l","i","c","e"," ","S","t","a","t","i","o","n","\n">>, <<"M","e","n","u">>, <<>>}

MaxSiblings == 3

RECURSIVE SeqsUpTo(_, _)
SeqsUpTo(S, n) ==
    IF n = 0 THEN {<<>>}
    ELSE LET shorter == SeqsUpTo(S, n - 1)
         IN  shorter \cup {Append(q, x) : q \in {r \in shorter : Len(r) = n - 1}, x \in S}


\* The pages source A may serve: each the headings of the page with their siblings.
Heading(text, siblings) == [text |-> text, siblings |-> siblings]

PageDocs ==
    { <<Heading(<<"K","R"," ","P","o","l","i","c","e">>, <<El("a", <<"t","e","l",":","0","8","2","1","-","2","4">>, <<"C","a","l","l">>)>>)>>,
      <<Heading(<<" ","L","a","s","h","k","a","r"," ","P","S"," ">>, <<El("p", <<>>, <<"S","a","y","y","a","j","i"," ","R","o","a","d">>),
                                   El("a", <<"h","t","t","p","s",":","/","/","m","a","p","s",".","g","o","o","g","l","e",".","c","o","m","/","?","q","u","e","r","y","=","M","G","+","R","o","a","d">>, <<"M","a","p">>)>>),
        Heading(<<"M","e","n","u">>, <<El("p", <<>>, <<"F","o","r","t"," ","R","o","a","d"," ","1">>)>>),
        Heading(<<"D","e","v","a","r","a","j","a"," ","P","S">>, <<El("div", <<>>, <<"0","8","2","1","-","1","0","0">>)>>)>> }

\* The pages source B may serve: each the tables of the page, a table its rows.
BangaloreDocs ==
    { <<>>,
      << << <<<<"N","a","m","e">>, <<"A","d","d","r","e","s","s">>, <<"P","h","o","n","e">>>>,
            <<<<"H","S","R"," ","W","h","i","t","e","f","i","e","l","d">>, <<" ","1"," ","M","a","i","n"," ">>, <<"0","8","0","-","1">>>>,
            <<<<"T","o","t","a","l">>>>,
            <<<<"A","i","r","p","o","r","t"," ","P","S">>, <<"K","I","A"," ","R","o","a","d">>, <<"n","o","n","e">>>> >> >>,
      << << <<<<"N","a","m","e">>, <<"A","d","d","r","e","s","s">>>>,
            <<<<"H","e","b","b","a","l"," ","P","S">>, <<"B","e","l","l","a","r","y"," ","R","o","a","d">>>> >>,
         << <<<<"N","a","m","e">>, <<"A","d","d","r","e","s","s">>, <<"P","h","o","n","e">>>>,
            <<<<"P","S">>, <<"2"," ","C","r","o","s","s">>, <<"1","0","0">>>> >> >> }

\* The number of candidates the pages served in one run may hold together.
MaxStations == 4

\* The status codes other than 200 a fetch may return.
BadStatus == {404}

\* What geolocator.geocode may do: a location (coordinates in units of 10^-7
\* degrees), no match, or an exception.
GeoOutcomes ==
    { [kind |-> "found", lat |-> 129716004, lng |-> 775946006],
      [kind |-> "found", lat |-> 0, lng |-> 775946006],
      [kind |-> "found", lat |-> 129716004, lng |-> 0],
      [kind |-> "none"],
      [kind |-> "error"] }

\* The number of candidates a run may hold; the ids of all of them are formatted.
MaxCandidates == 1000

(***************************************************************************)
(* SpecArea: the classifier applied to one name.                           *)
(***************************************************************************)
IdIdle == position = 0 /\ record_id = None
AreaIdle == station_name = <<>> /\ area = None
ScanIdle ==
    /\ scan_pc = "idle" /\ header = [text |-> <<>>, siblings |-> <<>>] /\ next_elem = 0 /\ address = <<>> /\ phone = <<>>
    /\ found = <<>> /\ addr_log = <<>> /\ phone_log = <<>>

MainIdle ==
    /\ pc = "idle" /\ page = 0 /\ stations = <<>> /\ mysore_stations = <<>>
    /\ bangalore_stations = <<>> /\ all_stations = <<>> /\ geocoded_stations = <<>>
    /\ i = 0 /\ lat = <<>> /\ lng = <<>> /\ saved = None /\ calls = <<>>
    /\ fetched = <<>> /\ b_fetched = <<>> /\ resolved = <<>> /\ origin = <<>>

InitArea == station_name \in NamePool /\ area = None /\ IdIdle /\ ScanIdle /\ MainIdle

ClassifyArea ==
    /\ area = None
    /\ area' = AreaOf(station_name)
    /\ UNCHANGED <<station_name, idVars, scanVars, mainVars>>

NextArea == ClassifyArea

SpecArea == InitArea /\ [][NextArea]_vars

(***************************************************************************)
(* SpecId: the id of the record of the candidate at index position.        *)
(***************************************************************************)
InitId == position \in 0..(MaxCandidates - 1) /\ record_id = None /\ AreaIdle /\ ScanIdle /\ MainIdle

FormatId ==
    /\ record_id = None
    /\ record_id' = RecordId(position)
    /\ UNCHANGED <<position, areaVars, scanVars, mainVars>>

NextId == FormatId

SpecId == InitId /\ [][NextId]_vars

(***************************************************************************)
(* SpecScan: scrape_mysore_stations on one heading (lines 76-113), one     *)
(* sibling per step.                                                       *)
(***************************************************************************)
InitScan ==
    /\ scan_pc = "header"
    /\ header \in {[text |-> t, siblings |-> q] : t \in HeaderTexts, q \in SeqsUpTo(SiblingPool, MaxSiblings)}
    /\ next_elem = 0 /\ address = <<>> /\ phone = <<>>
    /\ found = <<>> /\ addr_log = <<>> /\ phone_log = <<>>
    /\ AreaIdle /\ IdIdle /\ MainIdle

\* lines 77-86
StartHeader ==
    /\ scan_pc = "header"
    /\ IF HeaderSkipped(Strip(header.text))
       THEN scan_pc' = "done" /\ next_elem' = next_elem
       ELSE scan_pc' = "walk" /\ next_elem' = 1
    /\ address' = <<>> /\ phone' = <<>>
    /\ UNCHANGED <<header, found, addr_log, phone_log, areaVars, idVars, mainVars>>

\* lines 87-104: one turn of the while loop
WalkSibling ==
    /\ scan_pc = "walk"
    /\ Walking(header.siblings, next_elem)
    /\ LET el == header.siblings[next_elem]
           st == [address |-> address, phone |-> phone]
           mid == LinkPart(st, el)
           new == TextPart(mid, el)
       IN  /\ address' = new.address
           /\ phone' = new.phone
           /\ addr_log' = addr_log
                \o (IF el.name = "a" /\ IsMapsHref(el.href)
                       /\ extract_address_from_maps_url(el.href) \notin {None, <<>>}
                    THEN <<<<"maps", mid.address>>>> ELSE <<>>)
                \o (IF TextSetsAddress(mid, el) THEN <<<<"text", new.address>>>> ELSE <<>>)
           /\ phone_log' = phone_log
                \o (IF el.name = "a" /\ IsTelHref(el.href) THEN <<<<"tel", TelNumber(el.href)>>>> ELSE <<>>)
                \o (IF TextSetsPhone(mid, el) THEN <<<<"text", new.phone>>>> ELSE <<>>)
    /\ next_elem' = next_elem + 1
    /\ UNCHANGED <<scan_pc, header, found, areaVars, idVars, mainVars>>

\* lines 106-113, once the loop has ended
EmitCandidate ==
    /\ scan_pc = "walk"
    /\ ~Walking(header.siblings, next_elem)
    /\ found' = found \o Candidate(Strip(header.text), [address |-> address, phone |-> phone])
    /\ scan_pc' = "done"
    /\ UNCHANGED <<header, next_elem, address, phone, addr_log, phone_log, areaVars, idVars, mainVars>>

NextScan == StartHeader \/ WalkSibling \/ EmitCandidate

SpecScan == InitScan /\ [][NextScan]_vars

(***************************************************************************)
(* Spec: one run of main (lines 182-252).                                  *)
(***************************************************************************)
Init ==
    /\ pc = "main" /\ page = 0 /\ stations = <<>> /\ mysore_stations = <<>>
    /\ bangalore_stations = <<>> /\ all_stations = <<>> /\ geocoded_stations = <<>>
    /\ i = 0 /\ lat = <<>> /\ lng = <<>> /\ saved = None /\ calls = <<>>
    /\ fetched = <<>> /\ b_fetched = <<>> /\ resolved = <<>> /\ origin = <<>>
    /\ AreaIdle /\ IdIdle /\ ScanIdle

otherVars == <<areaVars, idVars, scanVars>>

\* line 190 calls scrape_mysore_stations; lines 57-62
CallMysore ==
    /\ pc = "main"
    /\ pc' = "mysore" /\ page' = 1 /\ stations' = <<>>
    /\ calls' = Append(calls, <<"call_a", 0>>)
    /\ UNCHANGED <<mysore_stations, bangalore_stations, all_stations, geocoded_stations, i, lat,
                   lng, saved, fetched, b_fetched, resolved, origin, otherVars>>

\* What a turn of the page loop leaves unchanged.
MysoreFrame ==
    UNCHANGED <<mysore_stations, bangalore_stations, all_stations, geocoded_stations, i, lat,
                lng, saved, b_fetched, resolved, origin, otherVars>>

\* lines 66-69: the page answers with a status other than 200; continue
FetchNon200 ==
    /\ pc = "mysore" /\ page <= LastPage
    /\ \E code \in BadStatus :
        fetched' = Append(fetched, [page |-> page, kind |-> "status", cands |-> <<>>])
    /\ calls' = Append(calls, <<"fetch_a", page>>)
    /\ page' = page + 1
    /\ UNCHANGED <<pc, stations>>
    /\ MysoreFrame

\* line 66 raises (timeout, connection error); lines 117-118
FetchRaises ==
    /\ pc = "mysore" /\ page <= LastPage
    /\ fetched' = Append(fetched, [page |-> page, kind |-> "error", cands |-> <<>>])
    /\ calls' = Append(calls, <<"fetch_a", page>>)
    /\ pc' = AfterMysoreError
    /\ UNCHANGED <<page, stations>>
    /\ MysoreFrame

\* lines 66-115: the page is fetched and scanned, then the pause of line 115
ScrapePage ==
    /\ pc = "mysore" /\ page <= LastPage
    /\ \E doc \in PageDocs :
        /\ Len(stations) + Len(PageCandidates(doc)) <= MaxStations
        /\ stations' = stations \o PageCandidates(doc)
        /\ fetched' = Append(fetched, [page |-> page, kind |-> "ok", cands |-> PageCandidates(doc)])
    /\ calls' = calls \o <<<<"fetch_a", page>>, <<"pause", page>>>>
    /\ page' = page + 1
    /\ UNCHANGED pc
    /\ MysoreFrame

\* lines 66-113 raise while a heading is handled, after k headings; lines 117-118
ScrapePageRaises ==
    /\ pc = "mysore" /\ page <= LastPage
    /\ \E doc \in PageDocs : \E k \in 0..(Len(doc) - 1) :
        /\ stations' = stations \o PageCandidates(SubSeq(doc, 1, k))
        /\ fetched' = Append(fetched, [page |-> page, kind |-> "partial",
                                        cands |-> PageCandidates(SubSeq(doc, 1, k))])
    /\ calls' = Append(calls, <<"fetch_a", page>>)
    /\ pc' = AfterMysoreError
    /\ UNCHANGED page
    /\ MysoreFrame

\* line 120 returns stations; lines 190-191
MysoreReturn ==
    /\ pc = "mysore_return" \/ (pc = "mysore" /\ page > LastPage)
    /\ mysore_stations' = stations
    /\ all_stations' = all_stations \o stations
    /\ calls' = Append(calls, <<"ret_a", 0>>)
    /\ pc' = "bangalore"
    /\ UNCHANGED <<page, stations, bangalore_stations, geocoded_stations, i, lat, lng, saved,
                   fetched, b_fetched, resolved, origin, otherVars>>

\* lines 196-204: scrape_bangalore_stations returns cands; main extends
\* all_stations and enters the loop over it
BangaloreReturns(kind, cands) ==
    /\ Len(all_stations) + Len(cands) <= MaxStations
    /\ bangalore_stations' = cands
    /\ b_fetched' = Append(b_fetched, [kind |-> kind, cands |-> cands])
    /\ all_stations' = all_stations \o cands
    /\ calls' = calls \o <<<<"call_b", 0>>, <<"fetch_b", 0>>, <<"ret_b", 0>>>>
    /\ i' = 0
    /\ pc' = IF all_stations \o cands = <<>> THEN "save" ELSE "geocode"
    /\ UNCHANGED <<page, stations, mysore_stations, geocoded_stations, lat, lng, saved,
                   fetched, resolved, origin, otherVars>>

\* line 130 raises; lines 177-180
BangaloreFetchRaises ==
    /\ pc = "bangalore"
    /\ BangaloreReturns("error", <<>>)

\* lines 131-133
BangaloreNon200 ==
    /\ pc = "bangalore"
    /\ \E code \in BadStatus : BangaloreReturns("status", <<>>)

\* lines 135-180
BangaloreScrape ==
    /\ pc = "bangalore"
    /\ \E doc \in BangaloreDocs : BangaloreReturns("ok", RowsCandidates(DataRows(doc)))

\* lines 135-175 raise while a row is handled, after k rows; lines 177-180
BangaloreScrapeRaises ==
    /\ pc = "bangalore"
    /\ \E doc \in BangaloreDocs : \E k \in 0..(Len(DataRows(doc)) - 1) :
        BangaloreReturns("partial", RowsCandidates(SubSeq(DataRows(doc), 1, k)))

\* lines 204-207: geocode_address for all_stations[i]
GeocodeCall ==
    /\ pc = "geocode"
    /\ \E outcome \in GeoOutcomes :
        /\ lat' = GeocodeResult(outcome)[1]
        /\ lng' = GeocodeResult(outcome)[2]
        /\ resolved' = Append(resolved, GeocodeResult(outcome))
    /\ calls' = Append(calls, <<"geocode", i + 1>>)
    /\ pc' = "emit"
    /\ UNCHANGED <<page, stations, mysore_stations, bangalore_stations, all_stations,
                   geocoded_stations, i, saved, fetched, b_fetched, origin, otherVars>>

\* lines 209-222
EmitOrDrop ==
    /\ pc = "emit"
    /\ IF Truthy(lat) /\ Truthy(lng)
       THEN /\ geocoded_stations' =
                  Append(geocoded_stations, GeocodedStation(i, all_stations[i + 1], lat, lng))
            /\ origin' = Append(origin, i)
       ELSE UNCHANGED <<geocoded_stations, origin>>
    /\ pc' = "sleep"
    /\ UNCHANGED <<page, stations, mysore_stations, bangalore_stations, all_stations, i, lat, lng,
                   saved, calls, fetched, b_fetched, resolved, otherVars>>

\* line 225, and line 204 for the next candidate
Sleep ==
    /\ pc = "sleep"
    /\ calls' = calls \o RateLimit(i, Truthy(lat) /\ Truthy(lng))
    /\ i' = i + 1
    /\ pc' = IF i + 1 < Len(all_stations) THEN "geocode" ELSE "save"
    /\ UNCHANGED <<page, stations, mysore_stations, bangalore_stations, all_stations,
                   geocoded_stations, lat, lng, saved, fetched, b_fetched, resolved, origin,
                   otherVars>>

MainFrame ==
    UNCHANGED <<page, stations, mysore_stations, bangalore_stations, all_stations,
                geocoded_stations, i, lat, lng, calls, fetched, b_fetched, resolved, origin,
                otherVars>>

\* lines 228-233
SaveOk == pc = "save" /\ saved' = geocoded_stations /\ pc' = "summary" /\ MainFrame

\* lines 230-236: the write raises; main returns
SaveFails == pc = "save" /\ pc' = "done" /\ UNCHANGED saved /\ MainFrame

\* lines 239-252
Summary ==
    pc = "summary" /\ Len(all_stations) # 0 /\ pc' = "done" /\ UNCHANGED saved /\ MainFrame

\* line 242 with len(all_stations) = 0: ZeroDivisionError leaves main
SummaryRaises ==
    pc = "summary" /\ Len(all_stations) = 0 /\ pc' = "crashed" /\ UNCHANGED saved /\ MainFrame

Next ==
    \/ CallMysore \/ FetchNon200 \/ FetchRaises \/ ScrapePage \/ ScrapePageRaises
    \/ MysoreReturn
    \/ BangaloreFetchRaises \/ BangaloreNon200 \/ BangaloreScrape \/ BangaloreScrapeRaises
    \/ GeocodeCall \/ EmitOrDrop \/ Sleep
    \/ SaveOk \/ SaveFails \/ Summary \/ SummaryRaises

Spec == Init /\ [][Next]_vars

(***************************************************************************)
(* Claims about the area classifier and the record id.                     *)
(***************************************************************************)
\* The decimal value of a sequence of digit characters.
RECURSIVE DecimalValue(_)
DecimalValue(d) ==
    IF d = <<>> THEN 0
    ELSE 10 * DecimalValue(SubSeq(d, 1, Len(d) - 1))
         + (CHOOSE v \in 0..9 : DigitChars[v + 1] = d[Len(d)])

\* C9: the area of a name is the label of the first keyword set, in the order
\* south, east, north, west, that has a keyword occurring in the lower-cased
\* name, also when a later set matches too; a name matching no set is
\* Bangalore Central; the three names of the spec get South, East, Central.
C9_AreaFirstMatchWins ==
    area # None =>
        LET order == <<SouthTerms, EastTerms, NorthTerms, WestTerms>>
            label == <<<<"B","a","n","g","a","l","o","r","e"," ","S","o","u","t","h">>, <<"B","a","n","g","a","l","o","r","e"," ","E","a","s","t">>, <<"B","a","n","g","a","l","o","r","e"," ","N","o","r","t","h">>, <<"B","a","n","g","a","l","o","r","e"," ","W","e","s","t">>>>
            low == Lower(station_name)
            hits == {k \in 1..4 : \E term \in order[k] : Contains(low, term)}
        IN  /\ hits = {} => area = <<"B","a","n","g","a","l","o","r","e"," ","C","e","n","t","r","a","l">>
            /\ hits # {} => area = label[CHOOSE k \in hits : \A m \in hits : k <= m]
            /\ station_name = <<"E","l","e","c","t","r","o","n","i","c"," ","C","i","t","y"," ","P","o","l","i","c","e"," ","S","t","a","t","i","o","n">> => area = <<"B","a","n","g","a","l","o","r","e"," ","S","o","u","t","h">>
            /\ station_name = <<"W","h","i","t","e","f","i","e","l","d"," ","P","o","l","i","c","e"," ","S","t","a","t","i","o","n">> => area = <<"B","a","n","g","a","l","o","r","e"," ","E","a","s","t">>
            /\ station_name = <<"C","e","n","t","r","a","l"," ","P","o","l","i","c","e"," ","S","t","a","t","i","o","n">> => area = <<"B","a","n","g","a","l","o","r","e"," ","C","e","n","t","r","a","l">>

\* C9 witness: a classified name with keywords of two sets gets the earlier set's label.
C9_Witness ==
    /\ area = <<"B","a","n","g","a","l","o","r","e"," ","S","o","u","t","h">>
    /\ \E term \in EastTerms : Contains(Lower(station_name), term)

\* C10 as stated: every record id is ps_ followed by exactly 3 decimal digits,
\* whatever the position of the candidate.
C10_ExactlyThreeDigits ==
    record_id # None =>
        /\ Len(record_id) = 6
        /\ SubSeq(record_id, 1, 3) = IdPrefix
        /\ \A k \in 4..6 : IsDigit(record_id[k])

\* C10 amended: every record id is ps_ followed by the decimal digits of the
\* 1-based position, zero-padded to 3 digits: exactly 3 digits up to position
\* 999, and as many digits as the position has from 1000 on.
C10_IdPaddedToThree ==
    record_id # None =>
        LET n == position + 1
            d == SubSeq(record_id, 4, Len(record_id))
        IN  /\ SubSeq(record_id, 1, 3) = IdPrefix
            /\ \A k \in 1..Len(d) : IsDigit(d[k])
            /\ DecimalValue(d) = n
            /\ n <= 999 => Len(d) = 3
            /\ n >= 1000 => Len(d) = (CHOOSE w \in 4..9 : 10^(w - 1) <= n /\ n < 10^w)

\* C10 witness: the id of the candidate at position 1000 has been formatted.
C10_Witness == record_id # None /\ position + 1 = 1000 /\ Len(record_id) = 7

(***************************************************************************)
(* Claims about the sibling walk of scrape_mysore_stations.                *)
(***************************************************************************)
\* A step of the while loop of lines 87-104 over header.siblings[next_elem].
IsWalkStep == scan_pc = "walk" /\ next_elem' = next_elem + 1
\* The element that step handles.
WalkedEl == header.siblings[next_elem]
\* The assignments the telephone links walked so far made.
TelLinks == SelectSeq(phone_log, LAMBDA e : e[1] = "tel")
\* Those of them that gave a non-empty number.
TelValues == SelectSeq(phone_log, LAMBDA e : e[1] = "tel" /\ e[2] # <<>>)

\* C6 as stated: a map link leaves an address that an earlier sibling has set unchanged.
C6_MapLinkKeepsSetAddress ==
    [][(IsWalkStep /\ WalkedEl.name = "a" /\ IsMapsHref(WalkedEl.href) /\ address # <<>>)
        => address' = address]_vars

\* C6 amended: a map link that carries a query parameter assigns it to the
\* address whether or not an earlier sibling has set one (it replaces it); any
\* other sibling (free text, a map link without the parameter, a telephone
\* link) leaves an address that is already set unchanged.
C6_MapLinkWithQueryAssigns ==
    [][IsWalkStep =>
        IF /\ WalkedEl.name = "a" /\ IsMapsHref(WalkedEl.href)
           /\ extract_address_from_maps_url(WalkedEl.href) \notin {None, <<>>}
        THEN address' = extract_address_from_maps_url(WalkedEl.href)
        ELSE address # <<>> => address' = address]_vars

\* C6 witness: a map link has replaced an address set by an earlier sibling.
C6_Witness ==
    /\ Len(addr_log) >= 2
    /\ addr_log[Len(addr_log)][1] = "maps"
    /\ addr_log[Len(addr_log)][2] # addr_log[Len(addr_log) - 1][2]
    /\ address = addr_log[Len(addr_log)][2]

\* C7 as stated: once a telephone link has set the phone, no later sibling of
\* the walk changes it, and the emitted phone is that first link's value.
C7_TelPhoneNeverChanged ==
    [][(scan_pc = "walk" /\ TelValues # <<>>)
        => /\ phone' = phone
           /\ scan_pc' = "done" => (found' # <<>> /\ found'[1].phone = TelValues[1][2])]_vars

\* C7 amended: a phone that is set is changed by no free text and no map
\* link; a telephone link with a non-empty number assigns the phone, also over
\* the value of an earlier telephone link; the phone of the emitted candidate
\* is the value of the last telephone link of the walk, when that value is
\* non-empty.
C7_LastTelLinkWins ==
    [][/\ IsWalkStep =>
            /\ (WalkedEl.name = "a" /\ IsTelHref(WalkedEl.href) /\ TelNumber(WalkedEl.href) # <<>>)
                => phone' = TelNumber(WalkedEl.href)
            /\ (~(WalkedEl.name = "a" /\ IsTelHref(WalkedEl.href)) /\ phone # <<>>)
                => phone' = phone
       /\ (scan_pc = "walk" /\ scan_pc' = "done" /\ TelLinks # <<>> /\ TelLinks[Len(TelLinks)][2] # <<>>)
            => (found' # <<>> /\ found'[1].phone = TelLinks[Len(TelLinks)][2])]_vars

\* C7 witness: a candidate is emitted after two telephone links with different
\* numbers, with the second link's number.
C7_Witness ==
    /\ scan_pc = "done" /\ found # <<>>
    /\ Len(TelValues) = 2
    /\ TelValues[1][2] # TelValues[2][2]
    /\ found[1].phone = TelValues[2][2]

(***************************************************************************)
(* Claims about main: the extractors, the enrichment loop, the summary.    *)
(***************************************************************************)
\* The number of candidates for which lines 209-222 have run.
Handled == IF pc = "emit" THEN Len(resolved) - 1 ELSE Len(resolved)
\* geocode_address returned a coordinate pair, not (None, None).
IsPair(r) == r[1] # <<>> /\ r[2] # <<>>
\* The records of geocoded_stations made for the candidate at 1-based position k.
RecordsOf(k) == {j \in 1..Len(origin) : origin[j] = k - 1}
\* main is past the two extractors.
PastExtractors == pc \in {"geocode", "emit", "sleep", "save", "summary", "done", "crashed"}
\* main is past the enrichment loop.
PastLoop == pc \in {"save", "summary", "done", "crashed"}
\* The candidates of the pages of source A, in page order.
RECURSIVE CandsOf(_)
CandsOf(f) == IF f = <<>> THEN <<>> ELSE Head(f).cands \o CandsOf(Tail(f))

\* C1 as stated: a handled candidate has a record exactly when geocode_address
\* returned a coordinate pair for it, whatever the pair holds; it never has
\* more than one; every record carries lat and lng.
C1_RecordIffPairReturned ==
    /\ \A k \in 1..Handled :
        /\ IsPair(resolved[k]) => Cardinality(RecordsOf(k)) = 1
        /\ ~IsPair(resolved[k]) => RecordsOf(k) = {}
    /\ \A j \in 1..Len(geocoded_stations) : {"lat", "lng"} \subseteq DOMAIN geocoded_stations[j]

\* C2: the id of every record encodes the 1-based position of its candidate
\* in all_stations, not its place in the output: the ids are pairwise
\* distinct, in increasing order of position, and skip the positions of
\* dropped candidates; of two candidates of which only the second resolves,
\* the one record has id ps_002.
C2_IdEncodesInputPosition ==
    /\ Len(origin) = Len(geocoded_stations)
    /\ \A j \in 1..Len(geocoded_stations) :
        LET id == geocoded_stations[j].id
        IN  /\ SubSeq(id, 1, 3) = IdPrefix
            /\ DecimalValue(SubSeq(id, 4, Len(id))) = origin[j] + 1
            /\ IsPair(resolved[origin[j] + 1])
            /\ geocoded_stations[j].name = all_stations[origin[j] + 1].name
    /\ \A j1, j2 \in 1..Len(geocoded_stations) :
        j1 < j2 => /\ origin[j1] < origin[j2]
                   /\ geocoded_stations[j1].id # geocoded_stations[j2].id
    /\ (PastLoop /\ Len(all_stations) = 2 /\ ~IsPair(resolved[1])
            /\ Truthy(resolved[2][1]) /\ Truthy(resolved[2][2]))
        => (Len(geocoded_stations) = 1 /\ geocoded_stations[1].id = <<"p","s","_","0","0","2">>)

\* C2 witness: a finished run of two candidates, the first dropped, whose one record is ps_002.
C2_Witness ==
    /\ pc = "done" /\ Len(all_stations) = 2 /\ ~IsPair(resolved[1])
    /\ Len(geocoded_stations) = 1 /\ geocoded_stations[1].id = <<"p","s","_","0","0","2">>

\* C3 as stated: a run in which both extractors return no candidate does not
\* end in an exception.
C3_EmptyRunDoesNotCrash == (PastExtractors /\ all_stations = <<>>) => pc # "crashed"

\* C4 as stated: when scrape_mysore_stations has returned (no exception in the
\* scan of a page), every page up to the bound was fetched, whatever fetch
\* failed, and the returned list holds the candidates of all pages fetched
\* with status 200.
C4_FailedPageOnlySkipped ==
    (pc \notin {"main", "mysore", "mysore_return"}
        /\ \A k \in 1..Len(fetched) : fetched[k].kind # "partial")
    => /\ \A p \in 1..LastPage : \E k \in 1..Len(fetched) : fetched[k].page = p
       /\ mysore_stations = CandsOf(fetched)

\* C5: scrape_mysore_stations never raises into main, whatever its pages did;
\* scrape_bangalore_stations is called exactly once, after it has returned;
\* all_stations is the candidates of source A in their order followed by
\* those of source B in theirs, and those of source B alone when every page
\* of source A answered with a status other than 200.
C5_SourceAFailureIsolated ==
    LET flow == SelectSeq(calls, LAMBDA e : e[1] \in {"call_a", "ret_a", "call_b", "ret_b"})
    IN  /\ pc \in {"mysore", "mysore_return"} => flow = <<<<"call_a", 0>>>>
        /\ pc = "bangalore" => flow = <<<<"call_a", 0>>, <<"ret_a", 0>>>>
        /\ pc \notin {"main", "mysore", "mysore_return", "bangalore"} =>
            /\ flow = <<<<"call_a", 0>>, <<"ret_a", 0>>, <<"call_b", 0>>, <<"ret_b", 0>>>>
            /\ Len(b_fetched) = 1
            /\ all_stations = CandsOf(fetched) \o b_fetched[1].cands
            /\ (\A k \in 1..Len(fetched) : fetched[k].kind = "status")
                => all_stations = b_fetched[1].cands

\* C5 witness: a finished run in which a fetch of source A raised after a page
\* gave candidates, and source B gave candidates too.
C5_Witness ==
    /\ pc = "done"
    /\ \E k \in 1..Len(fetched) : fetched[k].kind = "error"
    /\ mysore_stations # <<>> /\ bangalore_stations # <<>>
    /\ all_stations = mysore_stations \o bangalore_stations

\* C8: geocode_address is called once per candidate, in the order of
\* all_stations, and every call, whatever it returned, is followed by the
\* delay before the next call: calls and delays alternate strictly.
C8_OneCallThenDelayPerCandidate ==
    LET geo == SelectSeq(calls, LAMBDA e : e[1] \in {"geocode", "delay"})
    IN  /\ \A k \in 1..Len(geo) :
            geo[k] = IF k % 2 = 1 THEN <<"geocode", (k + 1) \div 2>> ELSE <<"delay", k \div 2>>
        /\ Len(geo) = IF pc \in {"emit", "sleep"} THEN 2 * i + 1 ELSE 2 * i
        /\ Len(resolved) = IF pc \in {"emit", "sleep"} THEN i + 1 ELSE i
        /\ PastLoop => i = Len(all_stations)

\* C8 witness: a finished run in which a resolution failed and a later one
\* succeeded, each followed by its delay.
C8_Witness ==
    /\ pc = "done" /\ Len(all_stations) >= 2
    /\ ~IsPair(resolved[1]) /\ IsPair(resolved[2])
    /\ Len(SelectSeq(calls, LAMBDA e : e[1] = "delay")) = Len(all_stations)

====
